---------------------------- MODULE Spec2Model ----------------------------
(***************************************************************************)
(* A model of the SailBot servo wrapper SB_Servo (SB_Servo.hpp and its     *)
(* source file): the calibration checks of the constructors, the two unit  *)
(* conversions, the single-servo operations and setMultipleTargets.        *)
(*                                                                         *)
(* The Pololu Maestro driver is outside the repository.  The model keeps   *)
(* the calls an operation makes to it (setTarget, getPosition,             *)
(* setMultiTarget) with their arguments, and draws the value getPosition   *)
(* returns from a set of positions.                                        *)
(***************************************************************************)
EXTENDS Integers, Sequences, FiniteSets, TLC

(***************************************************************************)
(* Error bits, defaults and the channel count of SB_Servo.hpp.             *)
(***************************************************************************)
US_ERROR_BIT == 1
RANGE_ERROR_BIT == 2
ANGLE_ERROR_BIT == 4
CHANNEL_ERROR_BIT == 8
ROTATE_TO_UNDER_ERROR_BIT == 16
ROTATE_TO_OVER_ERROR_BIT == 32

DEFAULT_MIN_US == 500
DEFAULT_MAX_US == 2500
DEFAULT_MIN_ANGLE == 0
DEFAULT_MAX_ANGLE == 180

NUM_MAESTRO_CHANNELS == 8

(***************************************************************************)
(* int is 32 bits wide on the Teensy; uint16_t holds residues modulo 2^16. *)
(***************************************************************************)
INT_MAX == (2^30 - 1) + 2^30
INT_MIN == (-INT_MAX) - 1
UINT16_MOD == 2^16

(***************************************************************************)
(* float: IEEE-754 binary32, every operation rounded to nearest, ties to   *)
(* even.  A finite value is s * m * 2^e with m = 0 or 2^23 <= m < 2^24     *)
(* (zero is kept with s = 1: the sign of a zero is never observed, the     *)
(* divisors of the conversions are a constructor argument and a difference *)
(* x - y, which rounds to +0).  The arguments the model draws keep every   *)
(* exponent inside binary32's normal range, so subnormals and overflow to  *)
(* infinity by rounding do not occur; division by zero does, and gives the *)
(* infinities and NaN.  All intermediate integers stay below 2^31.         *)
(***************************************************************************)
FZero == [k |-> "fin", s |-> 1, m |-> 0, e |-> 0]
FInf(sg) == [k |-> "inf", s |-> sg, m |-> 0, e |-> 0]
FNaN == [k |-> "nan", s |-> 1, m |-> 0, e |-> 0]

Abs(x) == IF x < 0 THEN -x ELSE x

\* The number of bits of n, 0 <= n < 2^30: the b in lo..hi with
\* 2^(b - 1) <= n < 2^b, by bisection.
RECURSIVE BitLenIn(_, _, _)
BitLenIn(n, lo, hi) ==
  IF lo = hi THEN lo
  ELSE LET mid == (lo + hi) \div 2
       IN IF n < 2^mid THEN BitLenIn(n, lo, mid) ELSE BitLenIn(n, mid + 1, hi)

BitLen(n) == BitLenIn(n, 0, 30)

\* s * (n + d) * 2^e rounded to binary32, where 0 <= d < 1 and d # 0 exactly
\* when sticky; sticky is only given with n >= 2^25.
FRound(s, n, e, sticky) ==
  IF n = 0 THEN FZero
  ELSE LET b == BitLen(n) IN
       IF b <= 24
       THEN [k |-> "fin", s |-> s, m |-> n * 2^(24 - b), e |-> e - (24 - b)]
       ELSE LET sh == b - 24
                q == n \div 2^sh
                r == n % 2^sh
                half == 2^(sh - 1)
                up == r > half \/ (r = half /\ (sticky \/ q % 2 = 1))
                q1 == IF up THEN q + 1 ELSE q
            IN IF q1 = 2^24
               THEN [k |-> "fin", s |-> s, m |-> 2^23, e |-> e + sh + 1]
               ELSE [k |-> "fin", s |-> s, m |-> q1, e |-> e + sh]

\* (float) i for an int i.
FromInt(i) ==
  IF i = INT_MIN THEN [k |-> "fin", s |-> -1, m |-> 2^23, e |-> 8]
  ELSE LET sg == IF i < 0 THEN -1 ELSE 1
           n == Abs(i)
       IN IF n < 2^30 THEN FRound(sg, n, 0, FALSE)
          ELSE FRound(sg, n \div 4, 2, n % 4 # 0)

FNeg(a) == IF a.k = "nan" \/ (a.k = "fin" /\ a.m = 0) THEN a
           ELSE [a EXCEPT !.s = -a.s]

FIsZero(a) == a.k = "fin" /\ a.m = 0

\* a * b
FMul(a, b) ==
  IF a.k = "nan" \/ b.k = "nan" THEN FNaN
  ELSE IF a.k = "inf" \/ b.k = "inf"
  THEN (IF FIsZero(a) \/ FIsZero(b) THEN FNaN ELSE FInf(a.s * b.s))
  ELSE IF a.m = 0 \/ b.m = 0 THEN FZero
  ELSE LET ah == a.m \div 4096
           al == a.m % 4096
           bh == b.m \div 4096
           bl == b.m % 4096
           mid == ah * bl + al * bh
           low == (mid % 4096) * 4096 + al * bl
           hi == ah * bh + mid \div 4096 + low \div 2^24
           lo == low % 2^24
           \* the 48-bit product is hi * 2^24 + lo, 2^22 <= hi < 2^24
       IN FRound(a.s * b.s, hi * 64 + lo \div 2^18, a.e + b.e + 18,
                 lo % 2^18 # 0)

\* a / b
FDiv(a, b) ==
  IF a.k = "nan" \/ b.k = "nan" THEN FNaN
  ELSE IF a.k = "inf"
  THEN (IF b.k = "inf" THEN FNaN ELSE FInf(a.s * b.s))
  ELSE IF b.k = "inf" THEN FZero
  ELSE IF b.m = 0 THEN (IF a.m = 0 THEN FNaN ELSE FInf(a.s * b.s))
  ELSE IF a.m = 0 THEN FZero
  ELSE LET q0 == a.m \div b.m
           r0 == a.m % b.m
           q1 == q0 * 128 + (r0 * 128) \div b.m
           r1 == (r0 * 128) % b.m
           q2 == q1 * 128 + (r1 * 128) \div b.m
           r2 == (r1 * 128) % b.m
           q3 == q2 * 128 + (r2 * 128) \div b.m
           r3 == (r2 * 128) % b.m
           q4 == q3 * 128 + (r3 * 128) \div b.m
           r4 == (r3 * 128) % b.m
           \* q4 is the floor of a.m * 2^28 / b.m, 2^27 < q4 < 2^29
       IN FRound(a.s * b.s, q4, a.e - b.e - 28, r4 # 0)

\* |a| < |b| for finite nonzero a, b.
FMagLess(a, b) == a.e < b.e \/ (a.e = b.e /\ a.m < b.m)

\* a + b
FAdd(a, b) ==
  IF a.k = "nan" \/ b.k = "nan" THEN FNaN
  ELSE IF a.k = "inf"
  THEN (IF b.k = "inf" /\ b.s # a.s THEN FNaN ELSE a)
  ELSE IF b.k = "inf" THEN b
  ELSE IF a.m = 0 THEN b
  ELSE IF b.m = 0 THEN a
  ELSE LET big == IF FMagLess(a, b) THEN b ELSE a
           sml == IF FMagLess(a, b) THEN a ELSE b
           d == big.e - sml.e
           B == big.m * 32
           S == IF d <= 5 THEN sml.m * 2^(5 - d)
                ELSE IF d - 5 >= 24 THEN 0
                ELSE sml.m \div 2^(d - 5)
           lost == IF d <= 5 THEN FALSE
                   ELSE IF d - 5 >= 24 THEN TRUE
                   ELSE sml.m % 2^(d - 5) # 0
       IN IF big.s = sml.s
          THEN FRound(big.s, B + S, big.e - 5, lost)
          ELSE IF lost THEN FRound(big.s, B - S - 1, big.e - 5, TRUE)
          ELSE FRound(big.s, B - S, big.e - 5, FALSE)

FSub(a, b) == FAdd(a, FNeg(b))

\* a < b; every comparison with a NaN is false.
FLess(a, b) ==
  IF a.k = "nan" \/ b.k = "nan" THEN FALSE
  ELSE IF a.k = "inf" THEN a.s = -1 /\ ~(b.k = "inf" /\ b.s = -1)
  ELSE IF b.k = "inf" THEN b.s = 1
  ELSE IF a.m = 0 THEN b.m # 0 /\ b.s = 1
  ELSE IF b.m = 0 THEN a.s = -1
  ELSE IF a.s # b.s THEN a.s = -1
  ELSE IF a.s = 1 THEN FMagLess(a, b)
  ELSE FMagLess(b, a)

\* What a float to int conversion of a value that int cannot hold (or of a
\* NaN) may give: the conversion is undefined, the builds saturate or give 0.
UndefinedInts == {INT_MIN, 0, INT_MAX}

\* (int) a: truncation toward zero, as the set of results a build can give.
FToInt(a) ==
  IF a.k # "fin" THEN UndefinedInts
  ELSE IF a.m = 0 THEN {0}
  ELSE IF a.e >= 8
  THEN (IF a.s = -1 /\ a.m = 2^23 /\ a.e = 8 THEN {INT_MIN} ELSE UndefinedInts)
  ELSE IF a.e >= 0 THEN {a.s * (a.m * 2^a.e)}
  ELSE IF -a.e >= 24 THEN {0}
  ELSE {a.s * (a.m \div 2^(-a.e))}

\* (int) (a + .5): the sum is formed in double, where it is exact (or, for
\* |a| < 2^-7, stays strictly between 0 and 1), and is then truncated.
FToIntPlusHalf(a) ==
  IF a.k # "fin" THEN UndefinedInts
  ELSE IF a.m = 0 THEN {0}
  ELSE IF a.e >= 8
  THEN (IF a.s = -1 /\ a.m = 2^23 /\ a.e = 8 THEN {INT_MIN + 1}
        ELSE UndefinedInts)
  ELSE IF a.e >= 0
  THEN (IF a.s = 1 THEN {a.m * 2^a.e} ELSE {1 - a.m * 2^a.e})
  ELSE IF -a.e > 30 THEN {0}
  ELSE LET t == -a.e
           num == a.s * a.m + 2^(t - 1)
       IN IF num >= 0 THEN {num \div 2^t} ELSE {-((-num) \div 2^t)}

(***************************************************************************)
(* The bounds of the model: the servos constructed in one run, and the     *)
(* length of the degrees vector given to setMultipleTargets.               *)
(***************************************************************************)
MaxServos == 3
MaxDegrees == 3

(***************************************************************************)
(* errorCode is an int used as a bit mask.                                 *)
(***************************************************************************)
RECURSIVE BitOr(_, _)
BitOr(x, y) ==
  IF x = 0 THEN y
  ELSE IF y = 0 THEN x
  ELSE (IF x % 2 = 1 \/ y % 2 = 1 THEN 1 ELSE 0) + 2 * BitOr(x \div 2, y \div 2)

RECURSIVE BitAnd(_, _)
BitAnd(x, y) ==
  IF x = 0 \/ y = 0 THEN 0
  ELSE (IF x % 2 = 1 /\ y % 2 = 1 THEN 1 ELSE 0) + 2 * BitAnd(x \div 2, y \div 2)

(***************************************************************************)
(* The state.                                                              *)
(*   servos      the live SB_Servo objects, each a record of its members   *)
(*               (the float members hold whole degrees, which binary32     *)
(*               represents exactly, and are kept as integers)             *)
(*   servoCount  the static counter SB_Servo::servoCount                   *)
(*   calls       the calls the last operation made on the shared maestro,  *)
(*               in order                                                  *)
(*   traces      the lines the last operation printed with printDebug      *)
(*               (DEBUG is defined in SB_Servo.hpp)                        *)
(*   op          the last operation: its name, the index in servos of the  *)
(*               object it was called on (0: none), its arguments, the     *)
(*               seven arguments a constructor handed to the full          *)
(*               constructor, and the object's errorCode before the call   *)
(*   ret         what the last operation returned, <<>> for void           *)
(*   accesses    the indices setMultipleTargets used on its servos vector  *)
(*               and wrote in its targets buffer                           *)
(***************************************************************************)
VARIABLES servos, servoCount, calls, traces, op, ret, accesses

vars == <<servos, servoCount, calls, traces, op, ret, accesses>>

NoAccess == [servos |-> {}, targets |-> {}]

\* printDebug(printMe) of servo u: one line naming the servo's number.
printDebug(u, printMe) == <<[servo |-> u.servoNumber, line |-> printMe]>>

(***************************************************************************)
(* The unit conversions.  degToUS returns an int: the set holds the values *)
(* the conversion of the float result to int can give.                     *)
(***************************************************************************)
degToUS(u, degree) ==
  FToInt(FAdd(FMul(FDiv(FromInt(u.maxUS - u.minUS), FromInt(u.maxDegreeRange)),
                   degree),
              FromInt(u.minUS)))

\* a - b in int: outside int the subtraction overflows and is undefined.
IntSub(a, b) ==
  IF (b >= 0 /\ a < INT_MIN + b) \/ (b < 0 /\ a > INT_MAX + b)
  THEN UndefinedInts
  ELSE {a - b}

\* usToDegrees returns a float: the set holds more than one value only where
\* us - minUS overflows.
usToDegrees(u, us) ==
  { FAdd(FMul(FDiv(FromInt(u.maxDegreeRange),
                   FSub(FromInt(u.maxUS), FromInt(u.minUS))),
              FromInt(d)),
         FromInt(u.minDegreeRange))
    : d \in IntSub(us, u.minUS) }

(***************************************************************************)
(* The checks.  Each gives the object after the check and, with Trace, the *)
(* line it prints.                                                         *)
(***************************************************************************)
\* A variant that assigns the bit instead of or-ing it in.
SetErrorAssigns(u, bit) == [u EXCEPT !.errorCode = bit]

SetError(u, bit) == [u EXCEPT !.errorCode = BitOr(@, bit)]

checkMinUSFails(u) == u.minUS < 0 \/ u.minUS > u.maxUS
checkMinUS(u) == IF checkMinUSFails(u) THEN SetError(u, US_ERROR_BIT) ELSE u
checkMinUSTrace(u) ==
  IF checkMinUSFails(u) THEN printDebug(u, "checkMinUS() error") ELSE <<>>

\* A variant that accepts maxUS = minUS.
checkMaxUSFailsStrict(u) == u.maxUS < 0 \/ u.maxUS < u.minUS

checkMaxUSFails(u) == u.maxUS < 0 \/ u.maxUS <= u.minUS
checkMaxUS(u) == IF checkMaxUSFails(u) THEN SetError(u, US_ERROR_BIT) ELSE u
checkMaxUSTrace(u) ==
  IF checkMaxUSFails(u) THEN printDebug(u, "checkMaxMS() error") ELSE <<>>

checkMinDegreeRangeFails(u) ==
  u.minDegreeRange < 0 \/ u.minDegreeRange > u.maxDegreeRange
checkMinDegreeRange(u) ==
  IF checkMinDegreeRangeFails(u) THEN SetError(u, RANGE_ERROR_BIT) ELSE u
checkMinDegreeRangeTrace(u) ==
  IF checkMinDegreeRangeFails(u)
  THEN printDebug(u, "checkMinDegreeRange() error") ELSE <<>>

checkMaxDegreeRangeFails(u) ==
  u.maxDegreeRange > 360 \/ u.maxDegreeRange < u.minDegreeRange
checkMaxDegreeRange(u) ==
  IF checkMaxDegreeRangeFails(u) THEN SetError(u, RANGE_ERROR_BIT) ELSE u
checkMaxDegreeRangeTrace(u) ==
  IF checkMaxDegreeRangeFails(u)
  THEN printDebug(u, "checkMaxDegreeRange() error") ELSE <<>>

\* A variant without the test for a negative angle.
checkMinAngleFailsNoSign(u) ==
  u.minAngle > u.maxAngle \/ u.minAngle < u.minDegreeRange

checkMinAngleFails(u) ==
  u.minAngle < 0 \/ u.minAngle > u.maxAngle \/ u.minAngle < u.minDegreeRange
checkMinAngle(u) ==
  IF checkMinAngleFails(u) THEN SetError(u, ANGLE_ERROR_BIT) ELSE u
checkMinAngleTrace(u) ==
  IF checkMinAngleFails(u) THEN printDebug(u, "checkMinAngle() error") ELSE <<>>

checkMaxAngleFails(u) ==
  u.maxAngle < 0 \/ u.maxAngle < u.minAngle \/ u.maxAngle > u.maxDegreeRange
checkMaxAngle(u) ==
  IF checkMaxAngleFails(u) THEN SetError(u, ANGLE_ERROR_BIT) ELSE u
checkMaxAngleTrace(u) ==
  IF checkMaxAngleFails(u) THEN printDebug(u, "checkMaxAngle() error") ELSE <<>>

\* A variant with the upper bound off by one.
checkChannelFailsOffByOne(u) ==
  u.channelNum < 0 \/ u.channelNum > NUM_MAESTRO_CHANNELS

checkChannelFails(u) ==
  u.channelNum < 0 \/ u.channelNum >= NUM_MAESTRO_CHANNELS
checkChannel(u) ==
  IF checkChannelFails(u) THEN SetError(u, CHANNEL_ERROR_BIT) ELSE u
checkChannelTrace(u) ==
  IF checkChannelFails(u) THEN printDebug(u, "checkChannel() error") ELSE <<>>

(***************************************************************************)
(* The constructors.  The full constructor stores its arguments (the pulse *)
(* widths times 4), takes the next servo number and runs the seven checks  *)
(* in order.  The arguments the model draws are far below 2^29, so 4 * x   *)
(* does not overflow int.                                                  *)
(***************************************************************************)
Members(minimumUS, maximumUS, minimumRange, maximumRange, minimumAngle, maximumAngle, channel, number) ==
  [minUS |-> 4 * minimumUS, maxUS |-> 4 * maximumUS,
   minDegreeRange |-> minimumRange, maxDegreeRange |-> maximumRange,
   minAngle |-> minimumAngle, maxAngle |-> maximumAngle,
   channelNum |-> channel, servoNumber |-> number, errorCode |-> 0]

RunChecks(u) ==
  checkChannel(checkMaxAngle(checkMinAngle(checkMaxDegreeRange(
    checkMinDegreeRange(checkMaxUS(checkMinUS(u)))))))

\* The checks only change errorCode, which no check reads: each prints
\* what it finds on the members.
RunChecksTrace(u) ==
  checkMinUSTrace(u) \o checkMaxUSTrace(u) \o checkMinDegreeRangeTrace(u)
  \o checkMaxDegreeRangeTrace(u) \o checkMinAngleTrace(u)
  \o checkMaxAngleTrace(u) \o checkChannelTrace(u)

\* SB_Servo(minimumUS, maximumUS, minimumRange, maximumRange, minimumAngle,
\* maximumAngle, channel), given as the tuple of its arguments.
FullArgs(a) == a

\* SB_Servo(minUS, maxUS, channel): what it hands to the full constructor.
ThreeArgs(a) ==
  <<a[1], a[2], DEFAULT_MIN_ANGLE, DEFAULT_MAX_ANGLE,
    DEFAULT_MIN_ANGLE, DEFAULT_MAX_ANGLE, a[3]>>

\* SB_Servo(channel): what it hands on, through the three-argument one.
ChannelArgs(a) == ThreeArgs(<<DEFAULT_MIN_US, DEFAULT_MAX_US, a[1]>>)

Delegated(a) ==
  IF Len(a) = 1 THEN ChannelArgs(a)
  ELSE IF Len(a) = 3 THEN ThreeArgs(a)
  ELSE FullArgs(a)

\* A constructor call with the arguments a (one, three or seven of them).
SB_Servo(a) ==
  LET d == Delegated(a)
      u == Members(d[1], d[2], d[3], d[4], d[5], d[6], d[7], servoCount)
  IN /\ servoCount < MaxServos
     /\ servos' = Append(servos, RunChecks(u))
     /\ servoCount' = servoCount + 1
     /\ calls' = <<>>
     /\ traces' = RunChecksTrace(u)
     /\ op' = [name |-> "SB_Servo", unit |-> Len(servos) + 1, args |-> a,
               delegated |-> d, pre |-> 0]
     /\ ret' = <<>>
     /\ accesses' = NoAccess

\* The owner destroys object i: the class has no destructor of its own, the
\* maestro is not touched.
Destroy(i) ==
  /\ servos' = SubSeq(servos, 1, i - 1) \o SubSeq(servos, i + 1, Len(servos))
  /\ calls' = <<>>
  /\ traces' = <<>>
  /\ op' = [name |-> "~SB_Servo", unit |-> 0, args |-> <<>>,
            delegated |-> <<>>, pre |-> 0]
  /\ ret' = <<>>
  /\ accesses' = NoAccess
  /\ UNCHANGED servoCount

(***************************************************************************)
(* The operations on one object.  Each is given as the set of its possible *)
(* outcomes (the object afterwards, the maestro calls, the lines printed,  *)
(* the value returned); an outcome set has more than one element only      *)
(* where the code's behaviour is undefined.                                *)
(***************************************************************************)

\* getCurrentDegrees(), where position is what maestro.getPosition returns
\* if it is called.
getCurrentDegrees(u, position) ==
  IF BitAnd(u.errorCode, CHANNEL_ERROR_BIT) # 0
  THEN { [servo |-> u, calls |-> <<>>,
          traces |-> printDebug(u, "Bad channel num, aborting getCurrentDegrees()"),
          ret |-> FromInt(-1)] }
  ELSE { [servo |-> u,
          calls |-> <<[fn |-> "getPosition", channel |-> u.channelNum,
                       result |-> position]>>,
          traces |-> <<>>,
          ret |-> degrees]
         : degrees \in usToDegrees(u, position) }

\* The first part of rotateToDegrees(degree): the clamp into
\* minAngle..maxAngle, with the error bit and the line it leaves.
ClampOver(u, degree) == FLess(FromInt(u.maxAngle), degree)
ClampUnder(u, degree) == ~ClampOver(u, degree) /\ FLess(degree, FromInt(u.minAngle))

\* A variant that only clamps from below.
ClampedFromBelow(u, degree) ==
  IF FLess(degree, FromInt(u.minAngle)) THEN FromInt(u.minAngle) ELSE degree

Clamped(u, degree) ==
  IF ClampOver(u, degree) THEN FromInt(u.maxAngle)
  ELSE IF ClampUnder(u, degree) THEN FromInt(u.minAngle)
  ELSE degree

\* A variant with the two rotate bits swapped.
ClampErrorSwapped(u, degree) ==
  IF ClampOver(u, degree) THEN SetError(u, ROTATE_TO_UNDER_ERROR_BIT)
  ELSE IF ClampUnder(u, degree) THEN SetError(u, ROTATE_TO_OVER_ERROR_BIT)
  ELSE u

ClampError(u, degree) ==
  IF ClampOver(u, degree) THEN SetError(u, ROTATE_TO_OVER_ERROR_BIT)
  ELSE IF ClampUnder(u, degree) THEN SetError(u, ROTATE_TO_UNDER_ERROR_BIT)
  ELSE u

ClampTrace(u, degree) ==
  IF ClampOver(u, degree)
  THEN printDebug(u, "Requested RotateTo() angle exceeds rating warning")
  ELSE IF ClampUnder(u, degree)
  THEN printDebug(u, "Requested RotateTo() angle under rating warning")
  ELSE <<>>

\* rotateToDegrees(degree), degree a float.
rotateToDegrees(u, degree) ==
  LET u1 == ClampError(u, degree)
      u2 == checkChannel(u1)
      lines == ClampTrace(u, degree) \o checkChannelTrace(u1)
  IN { IF BitAnd(u2.errorCode, CHANNEL_ERROR_BIT) # 0
       THEN [servo |-> u2, calls |-> <<>>,
             traces |-> lines \o printDebug(u2, "Bad channel num, aborting rotateTo()"),
             ret |-> <<>>]
       ELSE [servo |-> u2,
             calls |-> <<[fn |-> "setTarget", channel |-> u2.channelNum,
                          target |-> usToWrite]>>,
             traces |-> lines,
             ret |-> <<>>]
       : usToWrite \in degToUS(u1, Clamped(u, degree)) }

\* rotateBy(degreesBy): currentDeg is the int (int) (getCurrentDegrees() + .5).
rotateBy(u, degreesBy, position) ==
  UNION { UNION { { [r EXCEPT !.calls = g.calls \o @, !.traces = g.traces \o @]
                    : r \in rotateToDegrees(g.servo,
                                            FAdd(FromInt(currentDeg),
                                                 FromInt(degreesBy))) }
                  : currentDeg \in FToIntPlusHalf(g.ret) }
          : g \in getCurrentDegrees(u, position) }

getErrorCode(u) ==
  [servo |-> u, calls |-> <<>>, traces |-> <<>>, ret |-> u.errorCode]

clearErrorCode(u) ==
  [servo |-> [u EXCEPT !.errorCode = 0], calls |-> <<>>, traces |-> <<>>,
   ret |-> <<>>]

(***************************************************************************)
(* The operations as actions on object i of servos.                        *)
(***************************************************************************)
Called(name, i, a) ==
  [name |-> name, unit |-> i, args |-> a, delegated |-> <<>>,
   pre |-> servos[i].errorCode]

Outcome(i, r, value) ==
  /\ servos' = [servos EXCEPT ![i] = r.servo]
  /\ calls' = r.calls
  /\ traces' = r.traces
  /\ ret' = value
  /\ accesses' = NoAccess
  /\ UNCHANGED servoCount

GetCurrentDegrees(i, position) ==
  \E r \in getCurrentDegrees(servos[i], position) :
     /\ op' = Called("getCurrentDegrees", i, <<>>)
     /\ Outcome(i, r, <<r.ret>>)

RotateToDegrees(i, degree) ==
  \E r \in rotateToDegrees(servos[i], FromInt(degree)) :
     /\ op' = Called("rotateToDegrees", i, <<degree>>)
     /\ Outcome(i, r, <<>>)

RotateBy(i, degreesBy, position) ==
  \E r \in rotateBy(servos[i], degreesBy, position) :
     /\ op' = Called("rotateBy", i, <<degreesBy>>)
     /\ Outcome(i, r, <<>>)

GetErrorCode(i) ==
  LET r == getErrorCode(servos[i])
  IN /\ op' = Called("getErrorCode", i, <<>>)
     /\ Outcome(i, r, <<r.ret>>)

ClearErrorCode(i) ==
  LET r == clearErrorCode(servos[i])
  IN /\ op' = Called("clearErrorCode", i, <<>>)
     /\ Outcome(i, r, <<>>)

(***************************************************************************)
(* setMultipleTargets(servos, degrees), a static function: sv is the       *)
(* vector of objects it is given (copies), degrees the vector of angles.   *)
(* Indices are those of the code, from 0; sv[i + 1] is the code's          *)
(* servos[i].                                                              *)
(***************************************************************************)

\* The i of the contiguity loop, for i < servos.size() - 1 in size_t: with an
\* empty vector the bound wraps to the largest size_t and the loop starts on
\* indices 0 and 1.
ContiguityIndices(sv) ==
  IF Len(sv) = 0 THEN {0} ELSE 0..(Len(sv) - 2)

\* The indices used on the servos vector: i and i + 1 in the contiguity
\* loop, i in the conversion loop, and 0 for the first channel.
ServosIndices(sv, degrees) ==
  ContiguityIndices(sv) \cup {i + 1 : i \in ContiguityIndices(sv)}
  \cup 0..(Len(degrees) - 1) \cup {0}

\* The indices written in uint16_t targets[NUM_MAESTRO_CHANNELS].
TargetsIndices(degrees) == 0..(Len(degrees) - 1)

\* Whether every access is inside its vector or buffer.
AccessesDefined(sv, degrees) ==
  /\ \A i \in ServosIndices(sv, degrees) : i < Len(sv)
  /\ \A i \in TargetsIndices(degrees) : i < NUM_MAESTRO_CHANNELS

\* The lines of the contiguity loop, from index i on.
RECURSIVE ContiguityTrace(_, _)
ContiguityTrace(sv, i) ==
  IF i + 1 >= Len(sv) THEN <<>>
  ELSE (IF sv[i + 1].channelNum + 1 # sv[i + 2].channelNum
        THEN printDebug(sv[i + 1], "Continuity is wrong in setMultipleTargets!!!")
        ELSE <<>>) \o ContiguityTrace(sv, i + 1)

\* What an object read outside the vector converts an angle to, and the
\* channel such an object holds: anything; two values stand for it.
UndefinedPulses == {0, UINT16_MOD - 1}
UndefinedChannels == {0, NUM_MAESTRO_CHANNELS}

\* The values targets[i] can get: servos[i].degToUS(degrees[i]) stored in a
\* uint16_t.
TargetEntry(sv, degrees, i) ==
  IF i < Len(sv)
  THEN {us % UINT16_MOD : us \in degToUS(sv[i + 1], FromInt(degrees[i + 1]))}
  ELSE UndefinedPulses

\* The buffer entries 0 .. n - 1 after the conversion loop, as a sequence.
RECURSIVE TargetsWritten(_, _, _)
TargetsWritten(sv, degrees, n) ==
  IF n = 0 THEN {<<>>}
  ELSE {Append(t, us) : t \in TargetsWritten(sv, degrees, n - 1),
                        us \in TargetEntry(sv, degrees, n - 1)}

Min(a, b) == IF a < b THEN a ELSE b

\* The maestro calls of setMultipleTargets: one setMultiTarget with the size
\* of the servos vector, the first object's channel and the buffer, of which
\* the model keeps the entries the conversion loop wrote.  With an access
\* outside the vector or the buffer the behaviour is undefined: the call may
\* also not be reached.
setMultipleTargets(sv, degrees) ==
  LET written == TargetsWritten(sv, degrees,
                                Min(Len(degrees), NUM_MAESTRO_CHANNELS))
      first == IF Len(sv) > 0 THEN {sv[1].channelNum} ELSE UndefinedChannels
      made == { <<[fn |-> "setMultiTarget", count |-> Len(sv),
                   channel |-> c, targets |-> t]>>
                : c \in first, t \in written }
  IN { [calls |-> cs, traces |-> ContiguityTrace(sv, 0)]
       : cs \in IF AccessesDefined(sv, degrees) THEN made
                ELSE made \cup {<<>>} }

SetMultipleTargets(sv, degrees) ==
  \E r \in setMultipleTargets(sv, degrees) :
     /\ calls' = r.calls
     /\ traces' = r.traces
     /\ op' = [name |-> "setMultipleTargets", unit |-> 0, args |-> degrees,
               delegated |-> <<>>, pre |-> 0]
     /\ ret' = <<>>
     /\ accesses' = [servos |-> ServosIndices(sv, degrees),
                     targets |-> TargetsIndices(degrees)]
     /\ UNCHANGED <<servos, servoCount>>

(***************************************************************************)
(* The program starts with no servo constructed.                           *)
(***************************************************************************)
Init ==
  /\ servos = <<>>
  /\ servoCount = 0
  /\ calls = <<>>
  /\ traces = <<>>
  /\ op = [name |-> "none", unit |-> 0, args |-> <<>>, delegated |-> <<>>,
           pre |-> 0]
  /\ ret = <<>>
  /\ accesses = NoAccess

(***************************************************************************)
(* Spec: one servo, constructed by any of the three constructors, and any  *)
(* sequence of its operations.                                             *)
(***************************************************************************)
UnitMinUS == {0, 500}
UnitMaxUS == {500, 2500}
FullMinUS == {500}
FullMaxUS == {2500}
UnitMinRange == {0, 10}
UnitMaxRange == {0, 180}
UnitMinAngle == {10, 100}
UnitMaxAngle == {90, 180}
UnitChannels == {-1, 0, 7, 8}
RotateAngles == {-10, 10, 90, 200}
RotateDeltas == {-90, 10, 90}
Positions == {0, 6020, 6030}

Next ==
  \/ /\ servos = <<>>
     /\ \E channel \in UnitChannels : SB_Servo(<<channel>>)
  \/ /\ servos = <<>>
     /\ \E minUS \in UnitMinUS, maxUS \in UnitMaxUS, channel \in UnitChannels :
           SB_Servo(<<minUS, maxUS, channel>>)
  \/ /\ servos = <<>>
     /\ \E minUS \in FullMinUS, maxUS \in FullMaxUS,
           minRange \in UnitMinRange, maxRange \in UnitMaxRange,
           minAngle \in UnitMinAngle, maxAngle \in UnitMaxAngle,
           channel \in UnitChannels :
           SB_Servo(<<minUS, maxUS, minRange, maxRange, minAngle, maxAngle,
                      channel>>)
  \/ \E i \in DOMAIN servos, degree \in RotateAngles : RotateToDegrees(i, degree)
  \/ \E i \in DOMAIN servos, degreesBy \in RotateDeltas, position \in Positions :
        RotateBy(i, degreesBy, position)
  \/ \E i \in DOMAIN servos, position \in Positions :
        GetCurrentDegrees(i, position)
  \/ \E i \in DOMAIN servos : GetErrorCode(i)
  \/ \E i \in DOMAIN servos : ClearErrorCode(i)

Spec == Init /\ [][Next]_vars

(***************************************************************************)
(* SpecCtor: construction with a wide choice of arguments; one servo is    *)
(* alive at a time, its owner destroys it before the next is constructed.  *)
(***************************************************************************)
CtorPulses == {-1, 0, 500, 2500}
CtorRanges == {-10, 0, 10, 360, 400}
CtorAngles == {-5, 0, 10, 180, 370}
CtorChannels == {-1, 0, 7, 8}

NextCtor ==
  \/ /\ servos = <<>>
     /\ \E channel \in CtorChannels : SB_Servo(<<channel>>)
  \/ /\ servos = <<>>
     /\ \E a \in CtorPulses \cup CtorAngles, b \in CtorPulses \cup CtorAngles,
           channel \in CtorChannels :
           SB_Servo(<<a, b, channel>>)
  \/ /\ servos = <<>>
     /\ \E minUS \in CtorPulses, maxUS \in CtorPulses,
           minRange \in CtorRanges, maxRange \in CtorRanges,
           minAngle \in CtorAngles, maxAngle \in CtorAngles,
           channel \in CtorChannels :
           SB_Servo(<<minUS, maxUS, minRange, maxRange, minAngle, maxAngle,
                      channel>>)
  \/ \E i \in DOMAIN servos : Destroy(i)

SpecCtor == Init /\ [][NextCtor]_vars

(***************************************************************************)
(* SpecFleet: up to MaxServos servos and setMultipleTargets on the vector  *)
(* of them, with any vector of up to MaxDegrees angles.                    *)
(***************************************************************************)
FleetMinUS == {1000}
FleetMaxUS == {2000}
FleetChannels == {2, 3, 4, 5}
FleetAngles == {-90, 90}

RECURSIVE Vectors(_, _)
Vectors(S, n) ==
  IF n = 0 THEN {<<>>}
  ELSE Vectors(S, n - 1)
       \cup {Append(v, x) : v \in {w \in Vectors(S, n - 1) : Len(w) = n - 1},
                            x \in S}

NextFleet ==
  \/ \E channel \in FleetChannels : SB_Servo(<<channel>>)
  \/ \E minUS \in FleetMinUS, maxUS \in FleetMaxUS, channel \in FleetChannels :
        SB_Servo(<<minUS, maxUS, channel>>)
  \/ \E degrees \in Vectors(FleetAngles, MaxDegrees) :
        SetMultipleTargets(servos, degrees)

SpecFleet == Init /\ [][NextFleet]_vars

(***************************************************************************)
(* SpecConv: the two conversions as operations of their own.  A servo is   *)
(* constructed, degToUS is applied to a whole degree of its angle window,  *)
(* and usToDegrees to the pulse width degToUS gave.                        *)
(***************************************************************************)
ConvMinUS == {0, 500}
ConvMaxUS == {2000, 2500}
ConvMinRange == {0, 10}
ConvMaxRange == {0, 180}
ConvMinAngle == {0, 10}
ConvMaxAngle == {10, 45}
ConvChannels == {0}

Converted(name, i, a, value) ==
  /\ op' = Called(name, i, a)
  /\ ret' = <<value>>
  /\ calls' = <<>>
  /\ traces' = <<>>
  /\ accesses' = NoAccess
  /\ UNCHANGED <<servos, servoCount>>

DegToUS(i, degree) ==
  \E us \in degToUS(servos[i], FromInt(degree)) :
     Converted("degToUS", i, <<degree>>, us)

UsToDegrees(i, us) ==
  \E degrees \in usToDegrees(servos[i], us) :
     Converted("usToDegrees", i, <<us>>, degrees)

NextConv ==
  \/ /\ servos = <<>>
     /\ \E minUS \in ConvMinUS, maxUS \in ConvMaxUS,
           minRange \in ConvMinRange, maxRange \in ConvMaxRange,
           minAngle \in ConvMinAngle, maxAngle \in ConvMaxAngle,
           channel \in ConvChannels :
           SB_Servo(<<minUS, maxUS, minRange, maxRange, minAngle, maxAngle,
                      channel>>)
  \/ \E i \in DOMAIN servos :
        \E degree \in (servos[i].minAngle)..(servos[i].maxAngle) :
           DegToUS(i, degree)
  \/ /\ op.name = "degToUS"
     /\ UsToDegrees(op.unit, ret[1])

SpecConv == Init /\ [][NextConv]_vars

(***************************************************************************)
(* The properties.                                                         *)
(***************************************************************************)
HasBit(code, bit) == BitAnd(code, bit) # 0

ValidChannel(u) == 0 <= u.channelNum /\ u.channelNum < NUM_MAESTRO_CHANNELS

\* The object the last operation was called on.
Self == servos[op.unit]

\* C1: in every reachable state, getCurrentDegrees() on a servo whose channel
\* is outside 0 .. NUM_MAESTRO_CHANNELS - 1 returns -1 and makes no
\* getPosition call.
C1_InvalidChannelReadsMinusOne ==
  (op.name = "getCurrentDegrees" /\ ~ValidChannel(Self))
    => (ret = <<FromInt(-1)>> /\ calls = <<>>)

\* C2: in every reachable state, rotateToDegrees(a) on a servo whose channel
\* is outside 0 .. NUM_MAESTRO_CHANNELS - 1 makes no maestro call and returns
\* with the channel error bit set.
C2_InvalidChannelRotateAborts ==
  (op.name = "rotateToDegrees" /\ ~ValidChannel(Self))
    => (calls = <<>> /\ HasBit(Self.errorCode, CHANNEL_ERROR_BIT))

\* C2's case: the call is made with the error mask cleared, on a servo with
\* an invalid channel.
C2_Witness ==
  /\ op.name = "rotateToDegrees"
  /\ ~ValidChannel(Self)
  /\ op.pre = 0
  /\ calls = <<>>
  /\ HasBit(Self.errorCode, CHANNEL_ERROR_BIT)

\* The angle a clamped into minAngle .. maxAngle, as the claims state it.
ClaimClamp(u, a) ==
  IF a > u.maxAngle THEN u.maxAngle
  ELSE IF a < u.minAngle THEN u.minAngle
  ELSE a

DefaultCalibration(u) ==
  /\ u.minUS = 4 * DEFAULT_MIN_US /\ u.maxUS = 4 * DEFAULT_MAX_US
  /\ u.minDegreeRange = 0 /\ u.maxDegreeRange = 180
  /\ u.minAngle = 0 /\ u.maxAngle = 180

\* C3: on a servo with a valid channel rotateToDegrees(a) makes exactly one
\* maestro call, setTarget(channel, p), with p the degToUS of a clamped into
\* minAngle .. maxAngle; with the default calibration on channel 0,
\* rotateToDegrees(90) calls setTarget(0, 6000), the midpoint of the pulse
\* range.
C3_RotateSetsClampedTarget ==
  (op.name = "rotateToDegrees" /\ ValidChannel(Self))
    => /\ Len(calls) = 1
       /\ calls[1].fn = "setTarget"
       /\ calls[1].channel = Self.channelNum
       /\ calls[1].target \in degToUS(Self, FromInt(ClaimClamp(Self, op.args[1])))
       /\ (DefaultCalibration(Self) /\ Self.channelNum = 0 /\ op.args[1] = 90)
            => /\ calls[1].target = 6000
               /\ calls[1].target = (Self.minUS + Self.maxUS) \div 2

\* C3's case: the scenario.
C3_Witness ==
  /\ op.name = "rotateToDegrees"
  /\ DefaultCalibration(Self)
  /\ op.args = <<90>>
  /\ calls = <<[fn |-> "setTarget", channel |-> 0, target |-> 6000]>>

\* The error bits a single rotateToDegrees(a) sets on u.
ClaimRotateBits(u, a) ==
  (IF a > u.maxAngle THEN ROTATE_TO_OVER_ERROR_BIT ELSE 0)
  + (IF a < u.minAngle /\ ~(a > u.maxAngle) THEN ROTATE_TO_UNDER_ERROR_BIT ELSE 0)
  + (IF ValidChannel(u) THEN 0 ELSE CHANNEL_ERROR_BIT)

\* C4: a single rotateToDegrees(a) sets the rotate-over bit exactly when
\* a > maxAngle, the rotate-under bit exactly when a < minAngle and not
\* a > maxAngle, and neither inside the window, whether or not the channel
\* is valid (an invalid channel adds the channel bit): the mask after the
\* call is the mask before it with exactly these bits added.
C4_RotateBits ==
  op.name = "rotateToDegrees"
    => Self.errorCode = BitOr(op.pre, ClaimRotateBits(Self, op.args[1]))

\* C4's case: an out-of-window request on a servo with an invalid channel,
\* made with a clear mask, leaves the rotate bit and the channel bit.
C4_Witness ==
  /\ op.name = "rotateToDegrees"
  /\ ~ValidChannel(Self)
  /\ op.pre = 0
  /\ op.args[1] > Self.maxAngle
  /\ Self.errorCode = ROTATE_TO_OVER_ERROR_BIT + CHANNEL_ERROR_BIT

\* C5: the three-argument constructor called with (lo, hi, channel) gives
\* the servo the full constructor gives for the default pulse range and
\* rangeMin = angleMin = lo, rangeMax = angleMax = hi.
C5_ThreeArgsAreAngles ==
  (op.name = "SB_Servo" /\ Len(op.args) = 3)
    => Self = RunChecks(Members(DEFAULT_MIN_US, DEFAULT_MAX_US,
                                op.args[1], op.args[2], op.args[1], op.args[2],
                                op.args[3], Self.servoNumber))

\* |x - a| < 1 for a float x and a whole degree a.
WithinOneDegree(x, a) ==
  /\ FLess(FSub(x, FromInt(a)), FromInt(1))
  /\ FLess(FromInt(-1), FSub(x, FromInt(a)))

\* C6: for a servo whose error mask is 0 after construction and a whole
\* degree a of its angle window, usToDegrees(degToUS(a)) is within one degree
\* of a.
C6_RoundTrip ==
  [][(op.name = "degToUS" /\ op'.name = "usToDegrees"
      /\ servos[op.unit].errorCode = 0)
       => WithinOneDegree(ret'[1], op.args[1])]_vars

\* C7: right after construction the pulse-width bit is set exactly when not
\* 0 <= pulseMin < pulseMax, the range bit exactly when not
\* 0 <= rangeMin <= rangeMax <= 360, the channel bit exactly when not
\* 0 <= channel < NUM_MAESTRO_CHANNELS, and no rotate bit is set;
\* pulseMin >= pulseMax with everything else valid gives the pulse-width bit
\* alone.
C7_ConstructionBits ==
  op.name = "SB_Servo" =>
    LET d == op.delegated
        code == Self.errorCode
    IN /\ HasBit(code, US_ERROR_BIT) <=> ~(0 <= d[1] /\ d[1] < d[2])
       /\ HasBit(code, RANGE_ERROR_BIT)
            <=> ~(0 <= d[3] /\ d[3] <= d[4] /\ d[4] <= 360)
       /\ HasBit(code, CHANNEL_ERROR_BIT)
            <=> ~(0 <= d[7] /\ d[7] < NUM_MAESTRO_CHANNELS)
       /\ ~HasBit(code, ROTATE_TO_UNDER_ERROR_BIT)
       /\ ~HasBit(code, ROTATE_TO_OVER_ERROR_BIT)
       /\ (/\ d[1] >= d[2]
           /\ 0 <= d[3] /\ d[3] <= d[5] /\ d[5] <= d[6] /\ d[6] <= d[4]
           /\ d[4] <= 360
           /\ 0 <= d[7] /\ d[7] < NUM_MAESTRO_CHANNELS)
            => code = US_ERROR_BIT

\* C7's case: pulseMin >= pulseMax (both positive) and the rest valid.
C7_Witness ==
  /\ op.name = "SB_Servo"
  /\ Len(op.args) = 7
  /\ op.args[1] > 0
  /\ op.args[1] >= op.args[2]
  /\ Self.errorCode = US_ERROR_BIT

\* The angle invariant rangeMin <= angleMin <= angleMax <= rangeMax on the
\* seven constructor arguments d.
AngleInvariant(d) == d[3] <= d[5] /\ d[5] <= d[6] /\ d[6] <= d[4]

C9_MaskGrows ==
  [][/\ op'.name \in {"rotateToDegrees", "rotateBy", "getCurrentDegrees",
                      "getErrorCode"}
          => BitAnd(servos[op'.unit].errorCode, servos'[op'.unit].errorCode)
               = servos[op'.unit].errorCode
     /\ op'.name \in {"getCurrentDegrees", "getErrorCode"}
          => servos'[op'.unit].errorCode = servos[op'.unit].errorCode
     /\ (op.name = "clearErrorCode" /\ op'.name = "getErrorCode")
          => ret' = <<0>>]_vars

\* C9's case: getErrorCode() returns 0 on a servo whose construction set the
\* channel bit, so a clearErrorCode() came before it.
C9_Witness ==
  /\ op.name = "getErrorCode"
  /\ ~ValidChannel(Self)
  /\ ret = <<0>>

\* The servos on which setMultipleTargets prints its discontinuity line:
\* those followed by a servo whose channel is not the next one.
RECURSIVE ClaimDiscontinuities(_, _)
ClaimDiscontinuities(sv, i) ==
  IF i >= Len(sv) THEN <<>>
  ELSE (IF sv[i].channelNum + 1 # sv[i + 1].channelNum
        THEN <<sv[i].servoNumber>> ELSE <<>>)
       \o ClaimDiscontinuities(sv, i + 1)

\* C10: for n >= 1 servos and n angles setMultipleTargets makes exactly one
\* maestro call, setMultiTarget(n, servos[0].channelNum, p) with p[i] the
\* degToUS of servo i for angle i, and prints the discontinuity line on
\* exactly the servos i whose channel + 1 is not the channel of servo i + 1.
C10_OneBulkCall ==
  (op.name = "setMultipleTargets" /\ Len(servos) >= 1
   /\ Len(op.args) = Len(servos))
    => /\ Len(calls) = 1
       /\ calls[1].fn = "setMultiTarget"
       /\ calls[1].count = Len(servos)
       /\ calls[1].channel = servos[1].channelNum
       /\ Len(calls[1].targets) = Len(servos)
       /\ \A i \in DOMAIN servos :
             calls[1].targets[i] \in degToUS(servos[i], FromInt(op.args[i]))
       /\ [i \in DOMAIN traces |-> traces[i].servo]
            = ClaimDiscontinuities(servos, 1)

\* The whole degrees nearest to the float x (both neighbours on a tie), for
\* a finite x of magnitude below 2^24.
ClaimNearest(x) ==
  IF x.m = 0 THEN {0}
  ELSE IF x.e >= 0 THEN {x.s * x.m * 2^x.e}
  ELSE IF -x.e > 24 THEN {0}
  ELSE LET t == -x.e
           q == x.m \div 2^t
           r == x.m % 2^t
       IN IF 2 * r < 2^t THEN {x.s * q}
          ELSE IF 2 * r > 2^t THEN {x.s * (q + 1)}
          ELSE {x.s * q, x.s * (q + 1)}

\* Whether the degrees read are a number the claim's rounding applies to.
ClaimRoundable(x) == x.k = "fin" /\ x.e <= 0

\* The pulse widths C11 allows rotateBy(delta) to send after reading
\* position on u.
ClaimRotateByTargets(u, delta, position) ==
  UNION { UNION { degToUS(u, FromInt(ClaimClamp(u, n + delta)))
                  : n \in ClaimNearest(x) }
          : x \in usToDegrees(u, position) }

\* C11: rotateBy(delta) on a servo with a valid channel makes exactly one
\* getPosition(channel) call and then exactly one setTarget(channel, p)
\* call, p the degToUS of (the position read, converted to degrees and
\* rounded to the nearest whole degree, plus delta) clamped into
\* minAngle .. maxAngle; on a servo with an invalid channel it makes no
\* setTarget call.
C11_RotateByReadsThenSets ==
  op.name = "rotateBy" =>
    IF ValidChannel(Self)
    THEN /\ Len(calls) = 2
         /\ calls[1].fn = "getPosition"
         /\ calls[1].channel = Self.channelNum
         /\ calls[2].fn = "setTarget"
         /\ calls[2].channel = Self.channelNum
         /\ (\A x \in usToDegrees(Self, calls[1].result) : ClaimRoundable(x))
              => calls[2].target
                   \in ClaimRotateByTargets(Self, op.args[1], calls[1].result)
    ELSE \A i \in DOMAIN calls : calls[i].fn # "setTarget"


\* Whether the construction of u left its error mask at 0: the checks, run
\* again on its members, set no bit.
ConstructedClean(u) == RunChecks([u EXCEPT !.errorCode = 0]).errorCode = 0

\* Whether the pulse width p lies in degToUS(minAngle) .. degToUS(maxAngle)
\* of u and in its stored minUS .. maxUS.
PulseInWindow(u, p) ==
  /\ \E lo \in degToUS(u, FromInt(u.minAngle)),
        hi \in degToUS(u, FromInt(u.maxAngle)) : lo <= p /\ p <= hi
  /\ u.minUS <= p /\ p <= u.maxUS

\* C12: for servos whose construction left the error mask at 0, every pulse
\* width handed to the maestro (the target of a setTarget call, every entry
\* of a setMultiTarget call) lies in degToUS(minAngle) .. degToUS(maxAngle)
\* of its servo, and so in the stored minUS .. maxUS, whatever angle was
\* requested.
C12_PulsesInWindow ==
  \A k \in DOMAIN calls :
     /\ (calls[k].fn = "setTarget" /\ ConstructedClean(Self))
          => PulseInWindow(Self, calls[k].target)
     /\ calls[k].fn = "setMultiTarget"
          => \A i \in DOMAIN calls[k].targets :
                (i <= Len(servos) /\ ConstructedClean(servos[i]))
                  => PulseInWindow(servos[i], calls[k].targets[i])


\* C13: whatever the lengths of the two vectors given to setMultipleTargets,
\* every index it uses on the servos vector is below servos.size(), every
\* index it writes in the targets buffer is below NUM_MAESTRO_CHANNELS, and
\* the count it passes to setMultiTarget is at most the number of buffer
\* entries it wrote.
C13_AccessesInBounds ==
  op.name = "setMultipleTargets" =>
    /\ \A i \in accesses.servos : i < Len(servos)
    /\ \A i \in accesses.targets : i < NUM_MAESTRO_CHANNELS
    /\ \A k \in DOMAIN calls :
          calls[k].count <= Cardinality(accesses.targets)


=============================================================================
